---- MODULE Spec2Model ----
(***************************************************************************)
(* A model of pyxides: type-restricted list containers (typing.py) and     *)
(* vectorized attribute access over container items (vectorize.py).        *)
(*                                                                         *)
(* Four specifications share the module:                                   *)
(*   Spec       one container class with its class-level policy and one    *)
(*              instance: __init__, append, extend, type_checking          *)
(*   SpecClass  the class statement: OfTypes.__new__ / make_bases          *)
(*   SpecVec    AttrVector get / set over a list of items                  *)
(*   SpecCall   the MethodVectorizer / CallVector descriptors of one class  *)
(*              used through two containers                                *)
(***************************************************************************)
EXTENDS Integers, Sequences, FiniteSets, TLC

VARIABLES
    allowed,    \* cls._allowed_types of the container class
    convert,    \* cls.convert: "echo0" or the name of a type
    emit,       \* cls.emit: "raise", "warn" or "echo0"
    data,       \* the items of the container instance
    last,       \* the last call on the class or the instance, and its outcome
    klass,      \* the last class statement and the class it produced
    elems,      \* the items of the vectorized container
    vlast,      \* the last vectorized call and its outcome
    conts,      \* the items of the containers A and B of the class Hi
    descr,      \* the descriptor objects in the class body of Hi
    held,       \* the reference the caller keeps in a variable
    clast       \* the last vectorized method call and its outcome

vars == <<allowed, convert, emit, data, last, klass, elems, vlast,
          conts, descr, held, clast>>

\* ------------------------------------------------------------------------
\* Bounds
MaxLen == 2         \* longest container contents explored
MaxItems == 2       \* longest iterable handed to __init__ / extend
MaxDepth == 1       \* class statements built on the class of the last one
MaxElems == 2       \* longest vectorized container
MaxConts == 2       \* longest container of the method vectorizers

\* ------------------------------------------------------------------------
\* Types and values

Types == {"bool", "int", "float", "complex", "str", "NoneType",
          "Integral", "Real", "Sized", "Container"}

\* issubclass(a, b): b is among the (virtual) superclasses of a.
\* "Container" is the container class itself (a UserList, hence Sized).
Supers ==
    [t \in Types |->
        CASE t = "bool"      -> {"bool", "int", "Integral", "Real"}
          [] t = "int"       -> {"int", "Integral", "Real"}
          [] t = "float"     -> {"float", "Real"}
          [] t = "complex"   -> {"complex"}
          [] t = "str"       -> {"str", "Sized"}
          [] t = "NoneType"  -> {"NoneType"}
          [] t = "Integral"  -> {"Integral", "Real"}
          [] t = "Real"      -> {"Real"}
          [] t = "Sized"     -> {"Sized"}
          [] t = "Container" -> {"Container", "Sized"}]

IsSubclass(a, b) == b \in Supers[a]

\* A value is its concrete type and a payload: an int or bool carries its
\* number, a float its number in tenths, a str its length.
Val(t, n) == [ty |-> t, n |-> n]
Int1 == Val("int", 1)
Flt15 == Val("float", 15)
BoolT == Val("bool", 1)
Cplx == Val("complex", 1)
StrAb == Val("str", 2)
None == Val("NoneType", 0)
Self == Val("Container", 0)

\* The objects a caller hands to the container.
InVals == {Int1, Flt15, BoolT, Cplx, StrAb}

\* isinstance(obj, types) for a tuple of types
IsInstance(obj, types) ==
    \E k \in DOMAIN types : IsSubclass(obj.ty, types[k])

Ret(v) == [exc |-> "none", val |-> v]
Raise(e) == [exc |-> e, val |-> None]

\* Calling a type as a constructor on one argument: T(v).
Construct(T, v) ==
    CASE T = "int" ->
            IF v.ty \in {"int", "bool"} THEN Ret(Val("int", v.n))
            ELSE IF v.ty = "float" THEN Ret(Val("int", v.n \div 10))
            ELSE IF v.ty = "str" THEN Raise("ValueError")
            ELSE Raise("TypeError")
      [] T = "float" ->
            IF v.ty \in {"int", "bool"} THEN Ret(Val("float", v.n * 10))
            ELSE IF v.ty = "float" THEN Ret(v)
            ELSE IF v.ty = "str" THEN Raise("ValueError")
            ELSE Raise("TypeError")
      [] T = "bool" ->
            Ret(Val("bool", IF v.n # 0 THEN 1 ELSE 0))
      [] OTHER -> Raise("TypeError")    \* abstract classes take no arguments

\* recipes.functionals.echo0: return the 0th positional argument
echo0(args) == args[1]

\* ------------------------------------------------------------------------
\* OfTypes(*types): the factory call

OfTypes_call(args) ==
    IF Len(args) = 0 THEN "IndexError"          \* args[0] on the empty tuple
    ELSE IF Len(args) \notin {1, 3} THEN "TypeError"   \* type.__init__ arity
    ELSE "none"

TypeTuples ==
    {<<"int">>, <<"float">>, <<"Integral">>, <<"Sized">>,
     <<"int", "float">>, <<"int", "float", "str">>}

\* ------------------------------------------------------------------------
\* _TypeEnforcer

_actions == [s \in {-2, -1, 0, 1} |->
                CASE s = -2 -> "coerce"
                  [] s = -1 -> "echo0"
                  [] s = 0  -> "warn"
                  [] s = 1  -> "raise"]

_default_action == 1

\* self.convert(obj): a function stored on the class binds to the instance,
\* a type does not.
call_convert(cv, obj) ==
    IF cv = "echo0" THEN Ret(echo0(<<Self, obj>>)) ELSE Construct(cv, obj)

\* check_type returning the object it was given where the code returns the
\* converted one
check_type_keeps_original(obj, emitArg, types, cv, em) ==
    IF IsInstance(obj, types) THEN [exc |-> "none", val |-> obj, warn |-> 0]
    ELSE
        LET c == call_convert(cv, obj) IN
        IF c.exc # "none" THEN [exc |-> c.exc, val |-> None, warn |-> 0]
        ELSE IF IsInstance(c.val, types)
            THEN [exc |-> "none", val |-> obj, warn |-> 0]
        ELSE
            LET e == IF emitArg # "none" THEN emitArg ELSE em IN
            IF e = "echo0" THEN [exc |-> "none", val |-> obj, warn |-> 0]
            ELSE IF Len(types) > 1
                THEN [exc |-> "TypeError", val |-> None, warn |-> 0]
            ELSE IF e = "raise"
                THEN [exc |-> "TypeError", val |-> None, warn |-> 0]
            ELSE [exc |-> "none", val |-> None, warn |-> 1]

\* check_type whose raising action returns instead of raising
check_type_raise_returns(obj, emitArg, types, cv, em) ==
    IF IsInstance(obj, types) THEN [exc |-> "none", val |-> obj, warn |-> 0]
    ELSE
        LET c == call_convert(cv, obj) IN
        IF c.exc # "none" THEN [exc |-> c.exc, val |-> None, warn |-> 0]
        ELSE IF IsInstance(c.val, types)
            THEN [exc |-> "none", val |-> c.val, warn |-> 0]
        ELSE
            LET e == IF emitArg # "none" THEN emitArg ELSE em IN
            IF e = "echo0" THEN [exc |-> "none", val |-> c.val, warn |-> 0]
            ELSE IF Len(types) > 1
                THEN [exc |-> "TypeError", val |-> None, warn |-> 0]
            ELSE [exc |-> "none", val |-> None, warn |-> 1]

\* check_type(self, obj, i, emit): the object to store, an exception, and
\* whether a warning was emitted.  emitArg = "none" stands for emit=None.
check_type(obj, emitArg, types, cv, em) ==
    IF IsInstance(obj, types) THEN [exc |-> "none", val |-> obj, warn |-> 0]
    ELSE
        LET c == call_convert(cv, obj) IN
        IF c.exc # "none" THEN [exc |-> c.exc, val |-> None, warn |-> 0]
        ELSE IF IsInstance(c.val, types)
            THEN [exc |-> "none", val |-> c.val, warn |-> 0]
        ELSE
            LET e == IF emitArg # "none" THEN emitArg ELSE em IN
            IF e = "echo0" THEN [exc |-> "none", val |-> c.val, warn |-> 0]
            \* self._allowed_types[...] on a tuple
            ELSE IF Len(types) > 1
                THEN [exc |-> "TypeError", val |-> None, warn |-> 0]
            ELSE IF e = "raise"
                THEN [exc |-> "TypeError", val |-> None, warn |-> 0]
            \* wrn.warn(...) returns, and check_type falls off its end
            ELSE [exc |-> "none", val |-> None, warn |-> 1]

\* checks_type that yields nothing unless every object passes
RECURSIVE checks_type_atomic(_, _, _, _, _)
checks_type_atomic(itr, action, types, cv, em) ==
    IF itr = <<>> THEN [exc |-> "none", vals |-> <<>>, warn |-> 0]
    ELSE
        LET r == check_type(Head(itr), _actions[action], types, cv, em) IN
        IF r.exc # "none" THEN [exc |-> r.exc, vals |-> <<>>, warn |-> 0]
        ELSE
            LET rest == checks_type_atomic(Tail(itr), action, types, cv, em) IN
            [exc |-> rest.exc,
             vals |-> IF rest.exc # "none" THEN <<>> ELSE <<r.val>> \o rest.vals,
             warn |-> r.warn + rest.warn]

\* checks_type(self, itr, action): the generator, drained by list.extend or
\* list(): the objects yielded before the first exception, that exception,
\* and the number of warnings.
RECURSIVE checks_type(_, _, _, _, _)
checks_type(itr, action, types, cv, em) ==
    IF itr = <<>> THEN [exc |-> "none", vals |-> <<>>, warn |-> 0]
    ELSE
        LET r == check_type(Head(itr), _actions[action], types, cv, em) IN
        IF r.exc # "none" THEN [exc |-> r.exc, vals |-> <<>>, warn |-> 0]
        ELSE
            LET rest == checks_type(Tail(itr), action, types, cv, em) IN
            [exc |-> rest.exc, vals |-> <<r.val>> \o rest.vals,
             warn |-> r.warn + rest.warn]

\* get_converter without the check for several allowed types
get_converter_first_type(types, flag) ==
    IF flag THEN [exc |-> "none", val |-> types[1]]
    ELSE [exc |-> "none", val |-> "echo0"]

\* get_converter(cls, convert)
get_converter(types, flag) ==
    IF flag
        THEN IF Len(types) > 1 THEN Raise("ValueError")
             ELSE [exc |-> "none", val |-> types[1]]
        ELSE [exc |-> "none", val |-> "echo0"]

\* type_checking that puts the placeholder converter back whenever an emit
\* action is selected
type_checking_resets_convert(severity, types, cv, em) ==
    LET action == _actions[severity] IN
    IF action = "coerce"
        THEN LET g == get_converter(types, TRUE) IN
             IF g.exc # "none"
                THEN [exc |-> g.exc, convert |-> cv, emit |-> em]
                ELSE [exc |-> "none", convert |-> g.val, emit |-> em]
        ELSE [exc |-> "none", convert |-> "echo0", emit |-> action]

\* type_checking(cls, severity): the class attributes after the call
type_checking(severity, types, cv, em) ==
    LET action == _actions[severity] IN
    IF action = "coerce"
        THEN LET g == get_converter(types, TRUE) IN
             IF g.exc # "none"
                THEN [exc |-> g.exc, convert |-> cv, emit |-> em]
                ELSE [exc |-> "none", convert |-> g.val, emit |-> em]
        ELSE [exc |-> "none", convert |-> cv, emit |-> action]

\* The record of a call: its arguments, the exception it raised ("none" when
\* it returned), the warnings it emitted, and the instance's items and the
\* class's policy before it.
Call(op, items, exc, warn, pre) ==
    [op |-> op, items |-> items, sev |-> 2, exc |-> exc, warn |-> warn,
     pre |-> pre, was |-> [convert |-> convert, emit |-> emit]]

TypeInit ==
    /\ allowed \in {t \in TypeTuples : OfTypes_call(t) = "none"}
    /\ convert = "echo0"
    /\ emit = _actions[_default_action]
    /\ data = <<>>
    /\ last = [op |-> "class", items |-> <<>>, sev |-> 2, exc |-> "none",
               warn |-> 0, pre |-> <<>>,
               was |-> [convert |-> "echo0", emit |-> "raise"]]

Inputs == UNION {[1..n -> InVals] : n \in 0..MaxItems}

\* cx = Container(items): the instance is the new one; none exists (no
\* items) when __init__ raised
New(items) ==
    LET r == checks_type(items, _default_action, allowed, convert, emit) IN
    /\ data' = IF r.exc = "none" THEN r.vals ELSE <<>>
    /\ last' = Call("init", items, r.exc, r.warn, <<>>)
    /\ UNCHANGED <<allowed, convert, emit>>

\* cx.append(item)
AppendItem(item) ==
    LET r == check_type(item, "none", allowed, convert, emit) IN
    /\ Len(data) < MaxLen
    /\ data' = IF r.exc = "none" THEN Append(data, r.val) ELSE data
    /\ last' = Call("append", <<item>>, r.exc, r.warn, data)
    /\ UNCHANGED <<allowed, convert, emit>>

\* cx.extend(itr): list.extend keeps what the generator yielded before it raised
Extend(itr) ==
    LET r == checks_type(itr, _default_action, allowed, convert, emit) IN
    /\ Len(data) + Len(itr) <= MaxLen
    /\ data' = data \o r.vals
    /\ last' = Call("extend", itr, r.exc, r.warn, data)
    /\ UNCHANGED <<allowed, convert, emit>>

\* Container.type_checking(severity)
TypeChecking(severity) ==
    LET r == type_checking(severity, allowed, convert, emit) IN
    /\ convert' = r.convert
    /\ emit' = r.emit
    /\ last' = [Call("type_checking", <<>>, r.exc, 0, data) EXCEPT !.sev = severity]
    /\ UNCHANGED <<allowed, data>>

\* ------------------------------------------------------------------------
\* The class statement: OfTypes.__new__(cls, name, bases, attrs)

\* A class, as far as make_bases looks at it: whether it is an abc.Container,
\* whether it derives from _TypeEnforcer, the _allowed_types it resolves,
\* its metaclass, and for each of its __bases__ the metaclass and the
\* _allowed_types of that base.
Class(name, cnt, enf, types, meta, parents) ==
    [name |-> name, container |-> cnt, enforcer |-> enf, types |-> types,
     meta |-> meta, parents |-> parents]

AsParent(b) == [meta |-> b.meta, types |-> b.types, enforcer |-> b.enforcer]

\* object, ABCs and other plain classes as a base of a base
Plain(meta) == [meta |-> meta, types |-> <<>>, enforcer |-> FALSE]

list == Class("list", TRUE, FALSE, <<>>, "type", <<Plain("type")>>)
UserList == Class("UserList", TRUE, FALSE, <<>>, "ABCMeta",
                  <<Plain("ABCMeta")>>)
\* a mixin that is no container, and one that defines __contains__
Mixin == Class("Mixin", FALSE, FALSE, <<>>, "type", <<Plain("type")>>)
Bag == Class("Bag", TRUE, FALSE, <<>>, "type", <<Plain("type")>>)
NoClass == Class("", FALSE, FALSE, <<>>, "type", <<>>)

\* The class OfTypes(*types) or ListOf(*types) returns: a child of
\* _TypeEnforcer carrying the types.
Enforcer(meta, types) ==
    Class("ListOf", FALSE, TRUE, types, meta,
          <<[meta |-> "type", types |-> <<"object">>, enforcer |-> TRUE]>>)

\* issubclass between the metaclasses: ListOf < OfTypes < ABCMeta < type
MetaRank(m) ==
    CASE m = "type" -> 0 [] m = "ABCMeta" -> 1 [] m = "OfTypes" -> 2
      [] m = "ListOf" -> 3

IsSubMeta(m, of) == MetaRank(m) >= MetaRank(of)

\* the metaclass a class statement resolves from its bases
RECURSIVE Metaclass(_)
Metaclass(bases) ==
    IF bases = <<>> THEN "type"
    ELSE LET m == Metaclass(Tail(bases)) IN
         IF IsSubMeta(Head(bases).meta, m) THEN Head(bases).meta ELSE m

\* the index the loop leaves behind: the last one whose flag is set (0: None)
LastIndex(flags) ==
    LET S == {i \in DOMAIN flags : flags[i]} IN
    IF S = {} THEN 0 ELSE CHOOSE i \in S : \A j \in S : j <= i

RECURSIVE Concat(_)
Concat(seqs) ==
    IF seqs = <<>> THEN <<>> ELSE Head(seqs) \o Concat(Tail(seqs))

\* the _allowed_types of the __bases__ of one base that are instances of cls
PreviousOf(cls, base) ==
    Concat([k \in DOMAIN base.parents |->
                IF IsSubMeta(base.parents[k].meta, cls)
                    THEN base.parents[k].types ELSE <<>>])

\* _get_allowed_types(cls, bases); an index of 0 stands for None
_get_allowed_types(cls, bases) ==
    LET idx_enf == LastIndex([i \in DOMAIN bases |-> bases[i].enforcer])
        idx_cnt == LastIndex([i \in DOMAIN bases |-> bases[i].container])
    IN  [exc |-> IF idx_enf = 0 THEN "UnboundLocalError" ELSE "none",
         idx_enf |-> idx_enf,
         idx_cnt |-> idx_cnt,
         requested |-> IF idx_enf = 0 THEN <<>> ELSE bases[idx_enf].types,
         previous |-> Concat([k \in DOMAIN bases |-> PreviousOf(cls, bases[k])])]

\* _check_allowed_types(name, requested, previous): the inner loop leaves at
\* its first requested type, by break or by raise
_check_allowed_types(requested, previous) ==
    IF \E a \in DOMAIN previous :
            /\ requested # <<>>
            /\ ~IsSubclass(requested[1], previous[a])
        THEN "TypeError"
        ELSE "none"

\* make_bases(cls, name, bases)
make_bases(cls, bases) ==
    LET g == _get_allowed_types(cls, bases)
        chk == _check_allowed_types(g.requested, g.previous)
        withList == SubSeq(bases, 1, g.idx_enf) \o <<UserList>>
                        \o SubSeq(bases, g.idx_enf + 1, Len(bases))
        without == [k \in 1..(Len(bases) - 1) |->
                        IF k < g.idx_enf THEN bases[k] ELSE bases[k + 1]]
        moved == [k \in 1..Len(bases) |->
                        IF k < g.idx_cnt THEN without[k]
                        ELSE IF k = g.idx_cnt THEN bases[g.idx_enf]
                        ELSE without[k - 1]]
    IN  IF g.exc # "none" THEN [exc |-> g.exc, bases |-> bases]
        ELSE IF chk # "none" THEN [exc |-> chk, bases |-> bases]
        ELSE IF g.idx_cnt = 0
            THEN IF IsSubMeta(cls, "ListOf")
                    THEN [exc |-> "none", bases |-> withList]
                    ELSE [exc |-> "TypeError", bases |-> bases]
        ELSE IF g.idx_cnt < g.idx_enf THEN [exc |-> "none", bases |-> moved]
        ELSE [exc |-> "none", bases |-> bases]

\* the _allowed_types the new class resolves: those of the first base, in
\* base order, that derives from _TypeEnforcer (every such base precedes
\* _TypeEnforcer itself in the resolution order)
ResolveAllowed(bases) ==
    LET S == {i \in DOMAIN bases : bases[i].enforcer} IN
    IF S = {} THEN <<>>
    ELSE bases[CHOOSE i \in S : \A j \in S : i <= j].types

\* OfTypes.__new__ with (name, bases, attrs): the class, or the exception
OfTypes_new(name, bases) ==
    LET cls == Metaclass(bases)
        mb == make_bases(cls, bases)
    IN  IF mb.exc # "none" THEN [exc |-> mb.exc, cls |-> NoClass]
        ELSE [exc |-> "none",
              cls |-> Class(name,
                            \E k \in DOMAIN mb.bases : mb.bases[k].container,
                            \E k \in DOMAIN mb.bases : mb.bases[k].enforcer,
                            ResolveAllowed(mb.bases),
                            cls,
                            [k \in DOMAIN mb.bases |-> AsParent(mb.bases[k])])]

\* the example container classes of the tests
CoI == OfTypes_new("CoI", <<UserList, Enforcer("OfTypes", <<"Integral">>)>>).cls
Coi == OfTypes_new("Coi", <<Enforcer("ListOf", <<"int">>)>>).cls
CoR == OfTypes_new("CoR", <<UserList, Enforcer("OfTypes", <<"Real">>)>>).cls
CoM == OfTypes_new("CoM", <<UserList,
                            Enforcer("OfTypes", <<"int", "float", "str">>)>>).cls

\* the restrictions a class statement requests
Requests ==
    {<<"bool">>, <<"int">>, <<"float">>, <<"Integral">>,
     <<"bool", "float", "str">>, <<"float", "bool", "str">>}

\* bases a class statement may list ahead of the new restriction: a sequence
\* base or a restricted container (one of the examples, or the class the last
\* statement produced), then at most one mixin; or no sequence base at all
FirstBases ==
    {list, UserList, CoI, Coi, CoR, CoM}
        \cup (IF /\ klass.exc = "none" /\ klass.depth < MaxDepth
                  /\ klass.cls.container /\ klass.cls.enforcer
                THEN {klass.cls} ELSE {})

Declarations ==
    {<<f>> \o mid : f \in FirstBases, mid \in {<<>>, <<Mixin>>, <<Bag>>}}
        \cup {<<>>, <<Mixin>>}

\* class CoX(*bases, OfType(*types)): pass
ClassStatement(bases, factory, types) ==
    LET r == OfTypes_new("CoX", bases \o <<Enforcer(factory, types)>>) IN
    /\ OfTypes_call(types) = "none"
    /\ klass' = [decl |-> bases \o <<Enforcer(factory, types)>>,
                 exc |-> r.exc, cls |-> r.cls,
                 depth |-> IF bases # <<>> /\ bases[1] = klass.cls
                            THEN klass.depth + 1 ELSE 0]

\* ------------------------------------------------------------------------
\* Vectorized attribute access (vectorize.py)

\* The values attributes hold and set() is given: an int, a str (its
\* characters), a list of ints, or an itertools.repeat of an int or a str.
VInt(n) == [kind |-> "int", of |-> "int", items |-> <<n>>]
VStr(chars) == [kind |-> "str", of |-> "str", items |-> chars]
VList(ns) == [kind |-> "list", of |-> "int", items |-> ns]
VRepeat(v) == [kind |-> "repeat", of |-> v.kind, items |-> v.items]

IsSized(v) == v.kind \in {"str", "list"}        \* isinstance(v, abc.Sized)
IsCollection(v) == v.kind \in {"str", "list"}   \* isinstance(v, abc.Collection)
IsRepeat(v) == v.kind = "repeat"                \* isinstance(v, itt.repeat)

\* the k-th object an iteration over v yields
Nth(v, k) ==
    CASE v.kind = "list" -> VInt(v.items[k])
      [] v.kind = "str" -> VStr(<<v.items[k]>>)
      [] v.kind = "repeat" -> [kind |-> v.of, of |-> v.of, items |-> v.items]

\* An item: Simple(i), with its own Hello() as .hello
Simple(i, world) == [i |-> i, hello |-> [world |-> world]]

\* attribute paths, split at the dots
PathI == <<"i">>
PathWorld == <<"hello", "world">>
Paths == {PathI, PathWorld}

\* AttrGetter with one key: getattr along the path, segment by segment
RECURSIVE Resolve(_, _)
Resolve(path, obj) ==
    IF Len(path) = 1 THEN obj[path[1]]
    ELSE Resolve(Tail(path), obj[path[1]])

\* AttrSetter for one key: getattr along all but the last segment, setattr
\* of the last
RECURSIVE SetPath(_, _, _)
SetPath(obj, path, v) ==
    IF Len(path) = 1 THEN [obj EXCEPT ![path[1]] = v]
    ELSE [obj EXCEPT ![path[1]] = SetPath(obj[path[1]], Tail(path), v)]

\* AttrGetter.__call__(item): the value for one key, a tuple for several
AttrGetter(keys, item) ==
    IF Len(keys) = 1 THEN Resolve(keys[1], item)
    ELSE [j \in DOMAIN keys |-> Resolve(keys[j], item)]

\* AttrVectorizer.__call__(target), with the default convert=echo0 kept on
\* the instance
AttrVectorizer_call(keys, target) ==
    echo0(<<[k \in DOMAIN target |-> AttrGetter(keys, target[k])]>>)

\* AttrVector.__call__(*attrs)
AttrVector_call(attrs, target) ==
    [exc |-> "none", result |-> AttrVectorizer_call(attrs, target)]

\* AttrVector.__getattr__(name)
AttrVector_getattr(name, target) ==
    IF Len(target) # 0 THEN AttrVector_call(<<name>>, target)
    ELSE [exc |-> "AttributeError", result |-> <<>>]

\* AttrSetter(*keys)(item, values)
RECURSIVE AttrSetter(_, _, _)
AttrSetter(keys, item, values) ==
    IF keys = <<>> THEN item
    ELSE AttrSetter(Tail(keys), SetPath(item, Head(keys), Head(values)),
                    Tail(values))

\* the checking loop of AttrVectorizer.set over the (key, values) pairs
RECURSIVE CheckValues(_, _)
CheckValues(kws, size) ==
    IF kws = <<>> THEN "none"
    ELSE LET values == Head(kws).values IN
         IF IsSized(values) /\ Len(values.items) # size THEN "ValueError"
         ELSE IF ~IsRepeat(values) /\ ~IsCollection(values) THEN "TypeError"
         ELSE CheckValues(Tail(kws), size)

\* set() that assigns each key as soon as its values passed the check,
\* instead of checking every key first
RECURSIVE EagerSet(_, _)
EagerSet(target, kws) ==
    IF kws = <<>> THEN [exc |-> "none", items |-> target]
    ELSE LET chk == CheckValues(<<Head(kws)>>, Len(target)) IN
         IF chk # "none" THEN [exc |-> chk, items |-> target]
         ELSE EagerSet([k \in DOMAIN target |->
                            SetPath(target[k], Head(kws).key,
                                    Nth(Head(kws).values, k))],
                       Tail(kws))

AttrVectorizer_set_eager(target, kws) ==
    IF Len(target) = 0 THEN [exc |-> "AssertionError", items |-> target]
    ELSE EagerSet(target, kws)

\* AttrVectorizer.set(target, mapping): the exception and the items after
AttrVectorizer_set(target, kws) ==
    LET size == Len(target)
        chk == CheckValues(kws, size)
        keys == [j \in DOMAIN kws |-> kws[j].key]
    IN  IF size = 0 THEN [exc |-> "AssertionError", items |-> target]
        ELSE IF chk # "none" THEN [exc |-> chk, items |-> target]
        ELSE [exc |-> "none",
              items |-> [k \in DOMAIN target |->
                            AttrSetter(keys, target[k],
                                [j \in DOMAIN kws |-> Nth(kws[j].values, k)])]]

\* varies_by that counts one distinct value as variation
varies_by_at_least_one(keys, target) ==
    LET r == AttrVector_call(keys, target) IN
    [exc |-> r.exc,
     result |-> Cardinality({r.result[k] : k \in DOMAIN r.result}) >= 1]

\* AttrVectorizerMixin.varies_by(*keys): len(set(self.attrs(*keys))) > 1
varies_by(keys, target) ==
    LET r == AttrVector_call(keys, target) IN
    [exc |-> r.exc,
     result |-> Cardinality({r.result[k] : k \in DOMAIN r.result}) > 1]

VCall(op, attrs, kws, exc, result) ==
    [op |-> op, attrs |-> attrs, kws |-> kws, exc |-> exc, result |-> result]

\* the objects set() is handed as values
SetValues ==
    {VInt(9), VStr(<<120>>), VRepeat(VInt(9)), VRepeat(VStr(<<120>>))}
        \cup {VList([k \in 1..n |-> 6 + k]) : n \in MaxElems..(MaxElems + 1)}

Mappings ==
    {<<[key |-> p, values |-> v]>> : p \in Paths, v \in SetValues}
        \cup {<<[key |-> pq[1], values |-> v], [key |-> pq[2], values |-> w]>> :
                pq \in {<<PathI, PathWorld>>, <<PathWorld, PathI>>},
                v \in SetValues, w \in SetValues}

Items == {Simple(VInt(n), VStr(<<104, 105>>)) : n \in 1..2}

\* container.attrs(*attrs)
VGet(attrs) ==
    LET r == AttrVector_call(attrs, elems) IN
    /\ vlast' = VCall("call", attrs, <<>>, r.exc, r.result)
    /\ UNCHANGED elems

\* container.attrs.name
VGetAttr(name) ==
    LET r == AttrVector_getattr(<<name>>, elems) IN
    /\ vlast' = VCall("getattr", << <<name>> >>, <<>>, r.exc, r.result)
    /\ UNCHANGED elems

\* container.attrs.set(mapping)
VSet(kws) ==
    LET r == AttrVectorizer_set(elems, kws) IN
    /\ elems' = r.items
    /\ vlast' = VCall("set", <<>>, kws, r.exc, <<>>)

\* container.varies_by(*keys)
Varies(keys) ==
    LET r == varies_by(keys, elems) IN
    /\ vlast' = VCall("varies", keys, <<>>, r.exc, <<r.result>>)
    /\ UNCHANGED elems

\* ------------------------------------------------------------------------
\* vectorize.py: MethodVectorizer and CallVector
\*
\*   class Hi(list):
\*       calls = CallVector()
\*       uppers = MethodVectorizer('upper')
\*
\* A and B are two instances of Hi.  Both descriptor objects live in the
\* class body, so each is one object shared by A and B.

Containers == {"A", "B"}
Chars == {"a", "B"}
Methods == {"upper", "lower"}

\* getattr(obj, name)() for a one-character str
MethodCaller(name, obj) ==
    IF name = "upper" THEN (IF obj = "a" THEN "A" ELSE "B")
    ELSE (IF obj = "B" THEN "b" ELSE "a")

\* _MethodVectorizer.__call__: list(map(MethodCaller(name), target))
_MethodVectorizer_call(name, items) ==
    [k \in DOMAIN items |-> MethodCaller(name, items[k])]

\* MethodVectorizer.__init__(name, target)
MethodVectorizer_init(name, target) == [name |-> name, target |-> target]

\* CallVector.__init__: super().__init__(self, None)
CallVector_init == MethodVectorizer_init("self", "None")

\* MethodVectorizer.__get__: self.target = instance; return self
MethodVectorizer_get(self, instance) == [self EXCEPT !.target = instance]

\* MethodVectorizer.__call__: `assert self.target` fails for None and for an
\* empty container, before the try; the finally resets the target.
\* `self` is the object after the call, `applied` the container mapped over.
MethodVectorizer_call(self, world) ==
    IF self.target = "None" \/ world[self.target] = <<>>
        THEN [exc |-> "AssertionError", ret |-> "None", result |-> <<>>,
              applied |-> "None", self |-> self]
        ELSE [exc |-> "none", ret |-> "list",
              result |-> _MethodVectorizer_call(self.name, world[self.target]),
              applied |-> self.target,
              self |-> [self EXCEPT !.target = "None"]]

\* CallVector.__call__(name): sets self.name, calls super().__call__ in a try
\* whose finally resets self.name; there is no return statement.
CallVector_call(self, name, world) ==
    LET r == MethodVectorizer_call([self EXCEPT !.name = name], world) IN
    [exc |-> r.exc, ret |-> "None", result |-> <<>>, applied |-> r.applied,
     self |-> [r.self EXCEPT !.name = "None"]]

\* CallVector.__getattr__(name): MethodVectorizer(name, self.target)
CallVector_getattr(self, name) == MethodVectorizer_init(name, self.target)

NoRef ==
    [from |-> "None", kind |-> "none",
     obj |-> MethodVectorizer_init("None", "None"), spent |-> FALSE]

\* the record of one call: `from` is the container the reference was taken
\* from, `direct` whether access and call were one expression, `fresh`
\* whether the object had not been called through `from` since it was taken
CCall(from, form, name, direct, fresh, r) ==
    [op |-> "call", from |-> from, form |-> form, name |-> name,
     direct |-> direct, fresh |-> fresh, exc |-> r.exc, ret |-> r.ret,
     result |-> r.result, applied |-> r.applied]

\* c.uppers / c.calls, the value dropped
Access(c, attr) ==
    /\ descr' = [descr EXCEPT ![attr] = MethodVectorizer_get(@, c)]
    /\ UNCHANGED <<conts, held, clast>>

\* m = c.uppers / m = c.calls
Hold(c, attr) ==
    /\ descr' = [descr EXCEPT ![attr] = MethodVectorizer_get(@, c)]
    /\ held' = [NoRef EXCEPT !.from = c, !.kind = attr]
    /\ UNCHANGED <<conts, clast>>

\* m = c.calls.name
HoldAttr(c, name) ==
    LET self == MethodVectorizer_get(descr.calls, c) IN
    /\ descr' = [descr EXCEPT !.calls = self]
    /\ held' = [NoRef EXCEPT !.from = c, !.kind = "own",
                             !.obj = CallVector_getattr(self, name)]
    /\ UNCHANGED <<conts, clast>>

\* m = m.name, where m is the CallVector
GetAttrHeld(name) ==
    /\ held.kind = "calls"
    /\ held' = [held EXCEPT !.kind = "own",
                            !.obj = CallVector_getattr(descr.calls, name)]
    /\ UNCHANGED <<conts, descr, clast>>

\* c.uppers() / c.calls(name) / c.calls.name() as one expression
CallDirect(c, form, name) ==
    LET self == MethodVectorizer_get(
                    IF form = "uppers" THEN descr.uppers ELSE descr.calls, c)
        r == CASE form = "uppers" -> MethodVectorizer_call(self, conts)
               [] form = "call" -> CallVector_call(self, name, conts)
               [] form = "attr" ->
                    MethodVectorizer_call(CallVector_getattr(self, name), conts)
        called == /\ held.from = c
                  /\ \/ form = "uppers" /\ held.kind = "uppers"
                     \/ form = "call" /\ held.kind = "calls"
    IN
    /\ form = "uppers" => name = "upper"
    /\ descr' = CASE form = "uppers" -> [descr EXCEPT !.uppers = r.self]
                  [] form = "call" -> [descr EXCEPT !.calls = r.self]
                  [] form = "attr" -> [descr EXCEPT !.calls = self]
    /\ held' = IF called THEN [held EXCEPT !.spent = TRUE] ELSE held
    /\ clast' = CCall(c, form, name, TRUE, TRUE, r)
    /\ UNCHANGED conts

\* m() for a MethodVectorizer, m(name) for the CallVector
InvokeHeld(name) ==
    LET r == CASE held.kind = "uppers" -> MethodVectorizer_call(descr.uppers, conts)
               [] held.kind = "calls" -> CallVector_call(descr.calls, name, conts)
               [] held.kind = "own" -> MethodVectorizer_call(held.obj, conts)
        form == CASE held.kind = "uppers" -> "uppers"
                  [] held.kind = "calls" -> "call"
                  [] held.kind = "own" -> "attr"
    IN
    /\ held.kind # "none"
    /\ name = CASE held.kind = "uppers" -> "upper"
                [] held.kind = "calls" -> name
                [] held.kind = "own" -> held.obj.name
    /\ descr' = CASE held.kind = "uppers" -> [descr EXCEPT !.uppers = r.self]
                  [] held.kind = "calls" -> [descr EXCEPT !.calls = r.self]
                  [] held.kind = "own" -> descr
    /\ held' = [held EXCEPT !.spent = TRUE,
                            !.obj = IF held.kind = "own" THEN r.self ELSE @]
    /\ clast' = CCall(held.from, form, name, FALSE, ~held.spent, r)
    /\ UNCHANGED conts

VecIdle == UNCHANGED <<elems, vlast>>
CallIdle == UNCHANGED <<conts, descr, held, clast>>
ClassIdle == UNCHANGED klass
TypeIdle == UNCHANGED <<allowed, convert, emit, data, last>>

ClassInit == klass = [decl |-> <<>>, exc |-> "none", cls |-> NoClass, depth |-> 0]

VecNone ==
    /\ elems = <<>>
    /\ vlast = VCall("none", <<>>, <<>>, "none", <<>>)

CallNoCall ==
    [op |-> "none", from |-> "None", form |-> "none", name |-> "None",
     direct |-> FALSE, fresh |-> FALSE, exc |-> "none", ret |-> "None",
     result |-> <<>>, applied |-> "None"]

\* the class body of Hi, before any access
CallDescriptors ==
    /\ descr = [uppers |-> MethodVectorizer_init("upper", "None"),
                calls |-> CallVector_init]
    /\ held = NoRef
    /\ clast = CallNoCall

CallNone == conts = [c \in Containers |-> <<>>] /\ CallDescriptors

Init == TypeInit /\ ClassInit /\ VecNone /\ CallNone

Next ==
    \/ \E items \in Inputs : New(items) /\ VecIdle /\ ClassIdle /\ CallIdle
    \/ \E item \in InVals : AppendItem(item) /\ VecIdle /\ ClassIdle /\ CallIdle
    \/ \E itr \in Inputs : Extend(itr) /\ VecIdle /\ ClassIdle /\ CallIdle
    \/ \E s \in DOMAIN _actions : TypeChecking(s) /\ VecIdle /\ ClassIdle /\ CallIdle

Spec == Init /\ [][Next]_vars

NextClass ==
    \E bases \in Declarations, factory \in {"OfTypes", "ListOf"},
       types \in Requests :
        ClassStatement(bases, factory, types) /\ TypeIdle /\ VecIdle /\ CallIdle

InitClass == TypeInit /\ allowed = <<"int">> /\ ClassInit /\ VecNone /\ CallNone

SpecClass == InitClass /\ [][NextClass]_vars

VecInit ==
    /\ elems \in UNION {[1..n -> Items] : n \in 0..MaxElems}
    /\ vlast = VCall("none", <<>>, <<>>, "none", <<>>)

InitVec == TypeInit /\ allowed = <<"int">> /\ ClassInit /\ VecInit /\ CallNone

NextVec ==
    \/ \E attrs \in {<<p>> : p \in Paths} \cup {<<PathI, PathWorld>>} :
            VGet(attrs) /\ TypeIdle /\ ClassIdle /\ CallIdle
    \/ VGetAttr("i") /\ TypeIdle /\ ClassIdle /\ CallIdle
    \/ \E kws \in Mappings : VSet(kws) /\ TypeIdle /\ ClassIdle /\ CallIdle
    \/ \E keys \in {<<p>> : p \in Paths} \cup {<<PathI, PathWorld>>} :
            Varies(keys) /\ TypeIdle /\ ClassIdle /\ CallIdle

SpecVec == InitVec /\ [][NextVec]_vars

CallInit ==
    /\ conts \in [Containers -> UNION {[1..n -> Chars] : n \in 0..MaxConts}]
    /\ CallDescriptors

InitCall == TypeInit /\ allowed = <<"int">> /\ ClassInit /\ VecNone /\ CallInit

NextCall ==
    \/ \E c \in Containers, attr \in {"uppers", "calls"} :
            Access(c, attr) /\ TypeIdle /\ ClassIdle /\ VecIdle
    \/ \E c \in Containers, attr \in {"uppers", "calls"} :
            Hold(c, attr) /\ TypeIdle /\ ClassIdle /\ VecIdle
    \/ \E c \in Containers, name \in Methods :
            HoldAttr(c, name) /\ TypeIdle /\ ClassIdle /\ VecIdle
    \/ \E name \in Methods :
            GetAttrHeld(name) /\ TypeIdle /\ ClassIdle /\ VecIdle
    \/ \E c \in Containers, form \in {"uppers", "call", "attr"},
          name \in Methods :
            CallDirect(c, form, name) /\ TypeIdle /\ ClassIdle /\ VecIdle
    \/ \E name \in Methods :
            InvokeHeld(name) /\ TypeIdle /\ ClassIdle /\ VecIdle

SpecCall == InitCall /\ [][NextCall]_vars

\* ------------------------------------------------------------------------
\* Properties

AllConform(items) == \A k \in DOMAIN items : IsInstance(items[k], allowed)
Inserting == last.op \in {"init", "append", "extend"}
NoConversion == last.was.convert = "echo0"

\* C1: under the default policy (raise, no conversion) construction, append
\* and extend return when every supplied object is an instance of an allowed
\* type, and raise TypeError when some supplied object is an instance of none.
C1_RaiseAcceptsAndRejects ==
    (Inserting /\ NoConversion /\ last.was.emit = "raise") =>
        /\ AllConform(last.items) => last.exc = "none"
        /\ ~AllConform(last.items) => last.exc = "TypeError"

\* C2 as stated: whatever the policy, every item of the container is an
\* instance of an allowed type.
C2_EveryItemConforms == AllConform(data)

\* C2 as amended: while the class emits by raising, no call on the class or
\* the container turns contents that all conform into contents that do not.
C2_RaiseKeepsConforming ==
    [][(emit = "raise" /\ AllConform(data)) => AllConform(data')]_vars

C2_Witness ==
    /\ last.op = "extend" /\ last.exc = "none" /\ emit = "raise"
    /\ Len(last.items) = 2 /\ Len(data) = 2 /\ AllConform(data)
    /\ ~NoConversion /\ data # last.items

\* the classes a class statement builds on and the restriction it requests
DeclFirst == klass.decl[1]
DeclTypes == klass.decl[Len(klass.decl)].types

\* C3: a class statement on a restricted base (allowed types P) with a new
\* restriction (types R) succeeds exactly when every type of R is a subclass
\* of some type of P, and fails with TypeError otherwise.
C3_Narrowing ==
    (Len(klass.decl) >= 2 /\ DeclFirst.enforcer /\ DeclFirst.container) =>
        LET narrows == \A r \in DOMAIN DeclTypes : \E q \in DOMAIN DeclFirst.types :
                            IsSubclass(DeclTypes[r], DeclFirst.types[q])
        IN  /\ narrows <=> klass.exc = "none"
            /\ ~narrows => klass.exc = "TypeError"

\* C4: when a class statement listing a sequence base or a restricted
\* container first and the new restriction last succeeds, the first base of
\* the class derives from _TypeEnforcer and its _allowed_types are the
\* requested types.
C4_EnforcerFirst ==
    (Len(klass.decl) >= 2 /\ DeclFirst.container /\ klass.exc = "none") =>
        /\ klass.cls.parents[1].enforcer
        /\ klass.cls.types = DeclTypes

\* what conversion by the single allowed type makes of a supplied object
Coerced(v) == IF IsInstance(v, allowed) THEN Ret(v) ELSE Construct(allowed[1], v)

\* C5: with conversion enabled (one allowed type T), a construction, append
\* or extend that returns has stored T(v) for every supplied v that is not an
\* instance of T, every stored object being an instance of T; it raises only
\* what T(v) raises.
C5_CoerceStoresConverted ==
    (Inserting /\ ~NoConversion) =>
        /\ last.exc = "none" =>
            /\ data = last.pre \o [k \in DOMAIN last.items |->
                                        Coerced(last.items[k]).val]
            /\ \A k \in DOMAIN last.items :
                    IsInstance(Coerced(last.items[k]).val, allowed)
        /\ last.exc # "none" =>
            \E k \in DOMAIN last.items : Coerced(last.items[k]).exc = last.exc

C5_Witness ==
    /\ last.op = "extend" /\ last.was.convert = "int" /\ last.exc = "none"
    /\ last.items = <<Flt15, Int1>> /\ data = last.pre \o <<Int1, Int1>>

\* C6: type_checking(-2) on a class with several allowed types raises
\* ValueError and leaves cls.convert and cls.emit as they were.
C6_CoerceAmbiguous ==
    (last.op = "type_checking" /\ last.sev = -2 /\ Len(allowed) > 1) =>
        /\ last.exc = "ValueError"
        /\ convert = last.was.convert
        /\ emit = last.was.emit

C6_Witness ==
    /\ last.op = "type_checking" /\ last.sev = -2 /\ Len(allowed) = 3
    /\ last.exc = "ValueError" /\ emit = "warn"

\* C7: with the ignore policy selected (and no conversion), construction,
\* append and extend given an object that is no instance of an allowed type
\* return without a warning and store the supplied objects themselves.
C7_IgnoreStoresUnchanged ==
    (Inserting /\ NoConversion /\ last.was.emit = "echo0"
        /\ ~AllConform(last.items)) =>
            /\ last.exc = "none"
            /\ last.warn = 0
            /\ data = last.pre \o last.items

\* C8: with the warn policy selected (and no conversion), inserting an object
\* that is no instance of an allowed type emits a warning, raises nothing,
\* and stores the supplied object itself.
C8_WarnStoresUnchanged ==
    (Inserting /\ NoConversion /\ last.was.emit = "warn"
        /\ ~AllConform(last.items)) =>
            /\ last.exc = "none"
            /\ last.warn >= 1
            /\ data = last.pre \o last.items

\* C9: a vectorized get of one attribute path returns a list as long as the
\* container whose k-th entry is the path resolved on item k.
C9_GetSinglePath ==
    (vlast.op \in {"call", "getattr"} /\ Len(vlast.attrs) = 1) =>
        /\ vlast.exc = "none"
        /\ Len(vlast.result) = Len(elems)
        /\ \A k \in DOMAIN elems :
                vlast.result[k] = Resolve(vlast.attrs[1], elems[k])

\* C10: set() given a mapping from attribute paths to single values (an int,
\* a str) on a container with items assigns each value to its attribute on
\* every item.
C10_SetBroadcasts ==
    (/\ vlast.op = "set" /\ elems # <<>>
     /\ \A j \in DOMAIN vlast.kws : vlast.kws[j].values.kind \in {"int", "str"}) =>
        /\ vlast.exc = "none"
        /\ \A j \in DOMAIN vlast.kws : \A k \in DOMAIN elems :
                Resolve(vlast.kws[j].key, elems[k]) = vlast.kws[j].values

\* the mapping of the last set() holds only sized sequences (lists, strs)
AllSequences ==
    \A j \in DOMAIN vlast.kws : IsSized(vlast.kws[j].values)
AllFit ==
    \A j \in DOMAIN vlast.kws : Len(vlast.kws[j].values.items) = Len(elems)
EachReceivesItsValue ==
    \A j \in DOMAIN vlast.kws : \A k \in DOMAIN elems :
        Resolve(vlast.kws[j].key, elems[k]) = Nth(vlast.kws[j].values, k)
FailedSetLeavesItems ==
    [][(vlast'.op = "set" /\ vlast'.exc # "none") => elems' = elems]_vars

SomeTwoDiffer ==
    \E a \in DOMAIN elems : \E b \in DOMAIN elems :
        AttrGetter(vlast.attrs, elems[a]) # AttrGetter(vlast.attrs, elems[b])

RECURSIVE ConformingPrefix(_)
ConformingPrefix(items) ==
    IF items = <<>> THEN <<>>
    ELSE IF ~IsInstance(Head(items), allowed) THEN <<>>
    ELSE <<Head(items)>> \o ConformingPrefix(Tail(items))

\* C14: under the raise policy (no conversion) an append or extend that
\* raises was given an object that is no instance of an allowed type, and
\* leaves the container with its former items followed by exactly the
\* supplied objects ahead of the first such object.
C14_FailFast ==
    (last.op \in {"append", "extend"} /\ NoConversion
        /\ last.was.emit = "raise" /\ last.exc # "none") =>
            /\ ~AllConform(last.items)
            /\ data = last.pre \o ConformingPrefix(last.items)

C14_Witness ==
    /\ last.op = "extend" /\ NoConversion /\ last.was.emit = "raise"
    /\ last.items = <<Int1, Cplx>> /\ last.exc = "TypeError"
    /\ data = last.pre \o <<Int1>>

\* C16: type_checking(-2) leaves cls.emit alone and sets cls.convert (to the
\* single allowed type, or not at all when it raises); every other severity
\* sets cls.emit to its action and leaves cls.convert alone; and a converter
\* once set is never replaced.
C16_TypeCheckingFrame ==
    /\ [](last.op = "type_checking" =>
            IF last.sev = -2
                THEN /\ emit = last.was.emit
                     /\ last.exc = "none" => convert = allowed[1]
                     /\ last.exc # "none" => convert = last.was.convert
                ELSE /\ last.exc = "none"
                     /\ convert = last.was.convert
                     /\ emit = _actions[last.sev])
    /\ [][convert # "echo0" => convert' = convert]_vars

C16_Witness ==
    /\ last.op = "type_checking" /\ last.sev = 1
    /\ last.was.convert = "int" /\ last.was.emit = "echo0"
    /\ convert = "int" /\ emit = "raise"

\* the list a vectorized call of clast.name over the container clast.from
\* is to return
ExpectedOfFrom == _MethodVectorizer_call(clast.name, conts[clast.from])

\* C12: a vectorized call written as one expression, calls(name) or
\* calls.name(), on a container of any length returns the list of the
\* results of the named method of each item, in container order.
C12_CallReturnsList ==
    (clast.op = "call" /\ clast.direct /\ clast.form \in {"call", "attr"}) =>
        /\ clast.exc = "none"
        /\ clast.ret = "list"
        /\ clast.result = ExpectedOfFrom

\* C15: calling a vectorized method taken from a non-empty container, when
\* that object was not called through the same container since it was
\* taken, succeeds and maps the method over the items of that container,
\* whatever was accessed or called through the other container in between.
C15_BoundToItsContainer ==
    (clast.op = "call" /\ ~clast.direct /\ clast.fresh
        /\ conts[clast.from] # <<>>) =>
            /\ clast.exc = "none"
            /\ clast.applied = clast.from

====
